---- MODULE Spec2Model ----
(***************************************************************************)
(* LogStream: the Unix-socket listener, the per-connection task, the file  *)
(* storage backend, the server that builds them, the rotation task, the    *)
(* log entry and its renderings, and the client.                           *)
(*                                                                         *)
(*   src/src/server/unix_socket.rs  UnixSocketServer::start,               *)
(*                                  UnixSocketServer::handle_connection    *)
(*   src/src/server/storage.rs      StorageBackend::store_entry,           *)
(*                                  store_to_file, get_log_file_path,      *)
(*                                  create_file_writer                     *)
(*   src/src/server/mod.rs          LogServer::new, LogServer::start       *)
(*   src/src/server/rotation.rs     LogRotator::start_rotation_task        *)
(*   src/src/config/settings.rs     ServerConfig::validate,                *)
(*                                  ClientConfig::validate                 *)
(*   src/src/types/log_entry.rs     LogLevel, LogEntry::to_json,           *)
(*                                  from_json, to_human_readable           *)
(*   src/src/client/logger.rs       LogClient::with_config,                *)
(*                                  ensure_connected, log, close           *)
(*                                                                         *)
(* A file is a sequence of chunks, one chunk per write the kernel applies  *)
(* to it: the rendered entry of a record ("body"), the newline ("nl"), or  *)
(* the part of a body a failed write left behind ("frag").  Every record   *)
(* is named by the connection that sent it and its position on that        *)
(* connection.  The writer is tokio's BufWriter over tokio::fs::File as    *)
(* store_to_file uses it: writes shorter than its buffer reach the file at *)
(* flush, longer ones go to the file at once.                              *)
(***************************************************************************)
EXTENDS Integers, Sequences, FiniteSets, TLC

\* ---------------------------------------------------------------- bounds
MaxConns == 2
MaxSent == 2
MaxLen == 2
MaxCalls == 3

\* ------------------------------------------------------------ vocabulary
Conns == 1..MaxConns
Keys == {"A", "B"}
Malformed == "bad"
NoWriter == <<0, 0>>
NoHolder == 0
NL == <<"nl", 0, 0>>

\* A line a peer writes: a well-formed record for daemon k, or a line that
\* does not deserialize as a LogEntry.
Lines == [daemon : Keys \cup {Malformed}]

Body(c, i) == <<"body", c, i>>
Frag(c, i) == <<"frag", c, i>>

VARIABLES
    fileEnabled,    \* config.backends.file.enabled
    listener,       \* position of UnixSocketServer::start
    shutdown,       \* a signal is in the broadcast channel
    backlog,        \* connections made and not yet accepted
    conn,           \* per connection: idle, queued, open (its task runs),
                    \* or what handle_connection returned
    sent,           \* per connection: the lines the peer wrote, as read
    res,            \* per connection: what became of each line read
    pc,             \* per task: its position inside store_to_file
    cur,            \* per task: the writer its store call holds an Arc of
    file_writers,   \* StorageBackend.file_writers: daemon name -> writer
    writers,        \* every BufWriter created: key, buffer, lock holder
    files,          \* output directory: daemon name -> chunks on disk
    socket_path,    \* config.server.socket_path
    rotation_enabled,   \* config.storage.rotation.enabled
    server,         \* LogServer::new: not called, failed, or built
    accept_failed,  \* stderr holds a "Failed to accept connection" line
    rotator,        \* position of LogRotator::start_rotation_task
    ticked,         \* rotation_interval has delivered a tick
    ent,            \* a LogEntry and what was made of it
    cli,            \* a LogClient and the server it talks to
    at_path,        \* what the file system holds at the socket path
    closed,         \* the connections whose peer has closed its end
    acquired,       \* per file: the records whose store calls took a write
                    \* lock of the file's key, in the order they took it
    channel         \* the shutdown channel: open, closed (every sender
                    \* dropped) or lagged (more signals sent than it holds)

vars == <<fileEnabled, listener, shutdown, backlog, conn, sent, res,
          pc, cur, file_writers, writers, files,
          socket_path, rotation_enabled, server, accept_failed, rotator, ticked,
          ent, cli, at_path, closed, acquired, channel>>

env == <<closed, acquired, channel>>
aux == <<ent, cli, at_path, env>>

net == <<backlog, conn, sent, res>>
ctl == <<socket_path, rotation_enabled, server, accept_failed, rotator, ticked>>
store == <<pc, cur, file_writers, writers, files>>

\* ---------------------------------------------------------------- helpers
Upd(f, x, v) == [y \in DOMAIN f \cup {x} |-> IF y = x THEN v ELSE f[y]]

RECURSIVE SentUpTo(_)
SentUpTo(c) == IF c = 0 THEN 0 ELSE Len(sent[c]) + SentUpTo(c - 1)
TotalSent == SentUpTo(MaxConns)

\* serde_json::from_str::<LogEntry>(line.trim()) succeeds
Parses(line) == line.daemon # Malformed

\* DashMap key under which a daemon's writer is cached
CacheKeyShared(daemon_name) == "A"
CacheKey(daemon_name) == daemon_name

\* get_log_file_path: the file a daemon name maps to
get_log_file_path(daemon_name) == daemon_name

\* The line being processed by task c
CurLine(c) == sent[c][Len(sent[c])]
CurKey(c) == CurLine(c).daemon

\* What may be at the socket path: nothing ("none"), a file or a socket a
\* server left behind ("file"), a directory ("dir"), a symbolic link to
\* nothing ("dangling"), nothing in a directory that does not exist or
\* does not take a new entry ("nodir"), and the socket the listener bound
\* ("socket").
PathKinds == {"none", "file", "dir", "dangling", "nodir"}

Init ==
    /\ fileEnabled \in BOOLEAN
    /\ listener = "init"
    /\ shutdown = FALSE
    /\ backlog = <<>>
    /\ conn = [c \in Conns |-> "idle"]
    /\ sent = [c \in Conns |-> <<>>]
    /\ res = [c \in Conns |-> <<>>]
    /\ pc = [c \in Conns |-> "read"]
    /\ cur = [c \in Conns |-> NoWriter]
    /\ file_writers = <<>>
    /\ writers = <<>>
    /\ files = <<>>
    /\ socket_path = "sock"
    /\ rotation_enabled = FALSE
    /\ server = "built"
    /\ accept_failed = FALSE
    /\ rotator = "none"
    /\ ticked = FALSE
    /\ ent = <<>>
    /\ cli = <<>>
    /\ at_path \in PathKinds
    /\ closed = {}
    /\ acquired = <<>>
    /\ channel = "open"

\* ------------------------------------------------ UnixSocketServer::start
existsNever(k) == FALSE

\* Path::exists follows symbolic links: a link to nothing does not exist.
exists(k) == k \in {"file", "dir", "socket"}

\* std::fs::remove_file unlinks a file, a socket or a link, never a
\* directory.
remove_file(k) ==
    IF k \in {"file", "socket"} THEN [ok |-> TRUE, at |-> "none"]
    ELSE [ok |-> FALSE, at |-> k]

\* UnixListener::bind makes the socket where nothing is, in a directory
\* that takes it.
bind(k) ==
    IF k = "none" THEN [ok |-> TRUE, at |-> "socket"] ELSE [ok |-> FALSE, at |-> k]

\* Lines 36-41: remove the file at the socket path if one exists, then
\* bind.  Either call can fail, and start then returns the error.
ListenerBind ==
    /\ listener = "init"
    /\ LET r == IF exists(at_path) THEN remove_file(at_path)
                ELSE [ok |-> TRUE, at |-> at_path]
           b == bind(r.at)
       IN  IF ~r.ok
           THEN listener' = "returned_err" /\ at_path' = r.at
           ELSE /\ listener' = IF b.ok THEN "accepting" ELSE "returned_err"
                /\ at_path' = b.at
    /\ UNCHANGED <<ent, cli, env, ctl, fileEnabled, shutdown, net, store>>

\* What a finished connection task does to the listener: the spawned task's
\* result is discarded (let _ = ...), so nothing.
AfterTaskPropagate(l, result) == IF result = "err" THEN "returned_err" ELSE l
AfterTask(l, result) == l

\* select! branch listener.accept() => Ok: spawn handle_connection
ListenerAccept ==
    /\ listener = "accepting"
    /\ backlog # <<>>
    /\ conn' = [conn EXCEPT ![Head(backlog)] = "open"]
    /\ backlog' = Tail(backlog)
    /\ UNCHANGED <<aux, ctl, fileEnabled, listener, shutdown, sent, res, store>>

\* shutdown_rx.recv() completes when a signal is in the channel.
recv_never(signal) == FALSE
recv_ready(signal) == signal

\* shutdown_rx.recv() completes with an error as well: Closed when every
\* sender is dropped, Lagged when the receiver missed a signal.  The
\* pattern `_ = shutdown_rx.recv()' of both select! loops takes any result.
recv_err_never(ch) == FALSE
recv_err(ch) == ch \in {"closed", "lagged"}

\* select! branch shutdown_rx.recv() => break, then Ok(())
ListenerShutdown ==
    /\ listener = "accepting"
    /\ recv_ready(shutdown) \/ recv_err(channel)
    /\ listener' = "returned_ok"
    /\ UNCHANGED <<aux, ctl, fileEnabled, shutdown, net, store>>

\* ------------------------------------------------------------ environment
\* shutdown_tx.send(())
SendShutdown ==
    /\ channel # "closed"
    /\ ~shutdown
    /\ shutdown' = TRUE
    /\ UNCHANGED <<aux, ctl, fileEnabled, listener, net, store>>

\* A peer connects to the bound socket.  Connections are numbered in the
\* order they are made.
PeerConnect(c) ==
    /\ conn[c] = "idle"
    /\ \A d \in 1..(c - 1) : conn[d] # "idle"
    /\ listener = "accepting"
    /\ conn' = [conn EXCEPT ![c] = "queued"]
    /\ backlog' = Append(backlog, c)
    /\ UNCHANGED <<aux, ctl, fileEnabled, listener, shutdown, sent, res, store>>

\* ---------------------------------- UnixSocketServer::handle_connection
\* The task of an accepted connection was handed to tokio::spawn and its
\* JoinHandle dropped: it runs whatever becomes of start.
RunningWhileAccepting(c) == conn[c] = "open" /\ listener # "returned_ok"
Running(c) == conn[c] = "open"

\* store_entry, line 31: store_to_file runs only with the file backend on.
FileBackendAlways(enabled) == TRUE
FileBackend(enabled) == enabled

\* Lines 79-81: a line that is not a LogEntry has no else branch; the loop
\* goes on with the connection as it was.
AfterBadLineBreak(st) == "returned_ok"
AfterBadLine(st) == st

\* read_line returns Ok(n > 0) with the next line the peer wrote; the line
\* is parsed and, if it is a LogEntry, store_entry is called, which runs
\* without suspension up to the cache lookup (storage.rs line 40): a hit
\* clones the cached Arc, a miss goes on to open the file.  What the peer
\* wrote is fixed when the task reads it: nothing else sees a line that
\* waits in the socket.
ReadLine(c, line) ==
    /\ Running(c) /\ pc[c] = "read"
    /\ TotalSent < MaxSent
    /\ sent' = [sent EXCEPT ![c] = Append(@, line)]
    /\ LET k == CacheKey(line.daemon)
       IN IF ~Parses(line)
          THEN /\ res' = [res EXCEPT ![c] = Append(@, "drop")]
               /\ conn' = [conn EXCEPT ![c] = AfterBadLine(@)]
               /\ UNCHANGED <<pc, cur>>
          ELSE IF ~FileBackend(fileEnabled)
          THEN /\ res' = [res EXCEPT ![c] = Append(@, "ok")]
               /\ UNCHANGED <<conn, pc, cur>>
          ELSE IF k \in DOMAIN file_writers
          THEN /\ cur' = [cur EXCEPT ![c] = file_writers[k]]
               /\ pc' = [pc EXCEPT ![c] = "lock"]
               /\ UNCHANGED <<conn, res>>
          ELSE /\ pc' = [pc EXCEPT ![c] = "open"]
               /\ UNCHANGED <<conn, res, cur>>
    /\ UNCHANGED <<aux, ctl, fileEnabled, listener, shutdown, backlog,
                   file_writers, writers, files>>

\* The peer has closed its end and every line was read: read_line returns
\* Ok(0), the loop breaks and the task returns Ok(()).
ReadEof(c) ==
    /\ Running(c) /\ pc[c] = "read"
    /\ conn' = [conn EXCEPT ![c] = "returned_ok"]
    /\ listener' = AfterTask(listener, "ok")
    /\ UNCHANGED <<aux, ctl, fileEnabled, shutdown, backlog, sent, res, store>>

\* Line 83, Err(_) => break: the error is dropped and the task goes on to
\* the Ok(()) after the loop.
AfterReadErrPropagate(st) == "returned_err"
AfterReadErr(st) == "returned_ok"

\* read_line returns Err: the loop breaks and the task returns Ok(()) as well
ReadErr(c) ==
    /\ Running(c) /\ pc[c] = "read"
    /\ conn' = [conn EXCEPT ![c] = AfterReadErr(@)]
    /\ listener' = AfterTask(listener, "ok")
    /\ UNCHANGED <<aux, ctl, fileEnabled, shutdown, backlog, sent, res, store>>

\* ------------------------------------------ StorageBackend::store_to_file
\* The store call of task c returns Err: `?' ends handle_connection.
StoreErr(c) ==
    /\ conn' = [conn EXCEPT ![c] = "returned_err"]
    /\ res' = [res EXCEPT ![c] = Append(@, "err")]
    /\ pc' = [pc EXCEPT ![c] = "read"]
    /\ cur' = [cur EXCEPT ![c] = NoWriter]
    /\ listener' = AfterTask(listener, "err")

\* The store call of task c returns Ok(()): back to read_line.
StoreOk(c) ==
    /\ res' = [res EXCEPT ![c] = Append(@, "ok")]
    /\ pc' = [pc EXCEPT ![c] = "read"]
    /\ cur' = [cur EXCEPT ![c] = NoWriter]
    /\ UNCHANGED <<conn, listener>>

\* create_file_writer: open with create + append; the file exists afterwards
\* and keeps what it held.
create_file_writer(fs, path) == IF path \in DOMAIN fs THEN fs ELSE Upd(fs, path, <<>>)

\* Lines 43-47, cache miss: the file is opened, wrapped in a new
\* Arc<RwLock<BufWriter>> and inserted under the daemon name, replacing
\* whatever the map holds for it by then.
StoreOpen(c) ==
    /\ Running(c) /\ pc[c] = "open"
    /\ LET w == <<c, Len(sent[c])>>
           path == get_log_file_path(CurKey(c))
       IN /\ files' = create_file_writer(files, path)
          /\ writers' = Upd(writers, w, [path |-> path, buf |-> <<>>,
                                         werr |-> FALSE, holder |-> NoHolder])
          /\ file_writers' = Upd(file_writers, CacheKey(CurKey(c)), w)
          /\ cur' = [cur EXCEPT ![c] = w]
    /\ pc' = [pc EXCEPT ![c] = "lock"]
    /\ UNCHANGED <<aux, ctl, fileEnabled, listener, shutdown, net>>

\* Line 44: the open fails and `?' returns the error; nothing was inserted.
AfterOpenFailCached(fw, k) == Upd(fw, k, NoWriter)
AfterOpenFail(fw, k) == fw

StoreOpenFail(c) ==
    /\ Running(c) /\ pc[c] = "open"
    /\ StoreErr(c)
    /\ file_writers' = AfterOpenFail(file_writers, CacheKey(CurKey(c)))
    /\ UNCHANGED <<aux, ctl, fileEnabled, shutdown, backlog, sent,
                   writers, files>>

\* Line 56: writer.write().await is granted when nobody holds the lock.
LockFreeNever(w) == FALSE
LockFree(w) == writers[w].holder = NoHolder

LockTaken(c) ==
    /\ Running(c) /\ pc[c] = "lock"
    /\ LockFree(cur[c])
    /\ writers' = [writers EXCEPT ![cur[c]].holder = c]
    /\ pc' = [pc EXCEPT ![c] = "write"]
    /\ UNCHANGED <<ent, cli, at_path, closed, channel, ctl, fileEnabled,
                   listener, shutdown, net, cur, file_writers, files>>

StoreLock(c) ==
    /\ LockTaken(c)
    /\ UNCHANGED acquired

\* The same step, the order of the lock acquisitions being written down
StoreLockRecorded(c) ==
    /\ LockTaken(c)
    /\ LET path == writers[cur[c]].path
           before == IF path \in DOMAIN acquired THEN acquired[path] ELSE <<>>
       IN  acquired' = Upd(acquired, path, Append(before, <<c, Len(sent[c])>>))

\* The file is open in append mode: a write lands after what the file holds.
WriteAtStart(contents, data) == data \o contents
AppendTo(contents, data) == contents \o data

\* What a write that fails can leave in the file: the chunks before the one
\* it failed in, and possibly a part of that one.
FailedWrite(data) ==
    {SubSeq(data, 1, n) : n \in 0..(Len(data) - 1)}
      \cup {Append(SubSeq(data, 1, n), Frag(data[n + 1][2], data[n + 1][3])) :
              n \in {m \in 0..(Len(data) - 1) : data[m + 1][1] = "body"}}

\* Lines 57-58, write_all(formatted) then write_all("\n") on the BufWriter,
\* under the write guard.  A rendering shorter than the buffer (big = FALSE)
\* is copied into it with the newline.  A rendering at least as long as the
\* buffer (big = TRUE) bypasses it: what the buffer holds is written to the
\* file, then the rendering is handed to the file on its own, and only the
\* newline is buffered.  The file reports a failure of that last write at
\* the next call on it.
BufferedWrite(W, big, body) ==
    IF big THEN [W EXCEPT !.buf = <<NL>>]
    ELSE [W EXCEPT !.buf = W.buf \o <<body, NL>>]

StoreWrite(c, big) ==
    /\ Running(c) /\ pc[c] = "write"
    /\ LET w == cur[c]
           W == writers[w]
           body == Body(c, Len(sent[c]))
       IN IF ~big
          THEN /\ writers' = [writers EXCEPT ![w] = BufferedWrite(W, big, body)]
               /\ UNCHANGED files
          ELSE \/ /\ files' = [files EXCEPT ![W.path] = AppendTo(@, W.buf \o <<body>>)]
                  /\ writers' = [writers EXCEPT ![w] = BufferedWrite(W, big, body)]
               \/ \E left \in FailedWrite(<<body>>) :
                    /\ files' = [files EXCEPT ![W.path] = AppendTo(@, W.buf \o left)]
                    /\ writers' = [writers EXCEPT
                                     ![w] = [BufferedWrite(W, big, body)
                                               EXCEPT !.werr = TRUE]]
    /\ pc' = [pc EXCEPT ![c] = "flush"]
    /\ UNCHANGED <<aux, ctl, fileEnabled, listener, shutdown, net, cur, file_writers>>

\* Line 57 fails: the buffer held bytes of an earlier failed call, writing
\* them out before the bypass failed, and `?' returns with the guard dropped.
StoreWriteFail(c) ==
    /\ Running(c) /\ pc[c] = "write"
    /\ writers[cur[c]].buf # <<>>
    /\ \E left \in FailedWrite(writers[cur[c]].buf) :
         files' = [files EXCEPT ![writers[cur[c]].path] = AppendTo(@, left)]
    /\ writers' = [writers EXCEPT ![cur[c]].buf = <<>>, ![cur[c]].holder = NoHolder]
    /\ StoreErr(c)
    /\ UNCHANGED <<aux, ctl, fileEnabled, shutdown, backlog, sent, file_writers>>

\* Lines 59-62: flush succeeds, the guard is dropped, store returns Ok(()).
StoreFlush(c) ==
    /\ Running(c) /\ pc[c] = "flush"
    /\ ~writers[cur[c]].werr
    /\ files' = [files EXCEPT ![writers[cur[c]].path] = AppendTo(@, writers[cur[c]].buf)]
    /\ writers' = [writers EXCEPT ![cur[c]].buf = <<>>, ![cur[c]].holder = NoHolder]
    /\ StoreOk(c)
    /\ UNCHANGED <<aux, ctl, fileEnabled, shutdown, backlog, sent, file_writers>>

\* Line 59 fails and `?' returns with the guard dropped.  Either the bypass
\* write had failed, which the file reports now, before taking the buffer;
\* or the write of the buffer fails, after the file took it.
StoreFlushFail(c) ==
    /\ Running(c) /\ pc[c] = "flush"
    /\ LET w == cur[c]
           W == writers[w]
       IN IF W.werr
          THEN /\ writers' = [writers EXCEPT ![w].werr = FALSE, ![w].holder = NoHolder]
               /\ UNCHANGED files
          ELSE /\ \E left \in FailedWrite(W.buf) :
                    files' = [files EXCEPT ![W.path] = AppendTo(@, left)]
               /\ writers' = [writers EXCEPT ![w].buf = <<>>, ![w].holder = NoHolder]
    /\ StoreErr(c)
    /\ UNCHANGED <<aux, ctl, fileEnabled, shutdown, backlog, sent, file_writers>>

\* ------------------------------------------------------------ specification
Next ==
    \/ ListenerBind
    \/ ListenerAccept
    \/ ListenerShutdown
    \/ SendShutdown
    \/ \E c \in Conns : PeerConnect(c)
    \/ \E c \in Conns, line \in Lines : ReadLine(c, line)
    \/ \E c \in Conns : ReadEof(c)
    \/ \E c \in Conns : ReadErr(c)
    \/ \E c \in Conns : StoreOpen(c)
    \/ \E c \in Conns : StoreOpenFail(c)
    \/ \E c \in Conns : StoreLock(c)
    \/ \E c \in Conns, big \in BOOLEAN : StoreWrite(c, big)
    \/ \E c \in Conns : StoreWriteFail(c)
    \/ \E c \in Conns : StoreFlush(c)
    \/ \E c \in Conns : StoreFlushFail(c)

Spec == Init /\ [][Next]_vars

\* The select! of start polls both of its branches, whichever is ready: a
\* pending shutdown signal is eventually taken.
FairSpec ==
    /\ Spec
    /\ WF_vars(ListenerShutdown)

\* ------------------------------------------------------- LogServer::new
\* ServerConfig::validate: the only check is a non-empty socket path.
validateAny(path) == TRUE
validate(path) == path # ""

\* new: validate the configuration, `?' on its error; then StorageBackend::new
\* (an empty map, nothing opened) and the broadcast channel.
ServerNew ==
    /\ server = "none"
    /\ server' = IF validate(socket_path) THEN "built" ELSE "config_err"
    /\ UNCHANGED <<aux, fileEnabled, listener, shutdown, net, store,
                   socket_path, rotation_enabled, accept_failed, rotator, ticked>>

\* LogServer::start: a UnixSocketServer over the server's config, storage
\* and a receiver of its channel, and the result of its start.  Nothing else
\* is constructed or spawned.
ServerStart ==
    /\ server = "built"
    /\ ListenerBind

\* Line 46: what the listener's start returns is what start returns.
ServerStartResult ==
    IF server = "built" /\ listener \in {"returned_ok", "returned_err"}
    THEN listener ELSE "pending"

\* select! branch listener.accept() => Err(e): the error is printed and the
\* loop goes on.
AfterAcceptErrReturn(l) == "returned_err"
AfterAcceptErr(l) == l

AcceptErr ==
    /\ listener = "accepting"
    /\ accept_failed' = TRUE
    /\ listener' = AfterAcceptErr(listener)
    /\ UNCHANGED <<aux, fileEnabled, shutdown, net, store,
                   socket_path, rotation_enabled, server, rotator, ticked>>

\* ------------------------------------- LogRotator::start_rotation_task
\* A caller builds a LogRotator over the configuration and spawns its task
\* with a receiver of the shutdown channel.
SpawnRotationTask ==
    /\ server = "built"
    /\ rotator = "none"
    /\ rotator' = "start"
    /\ UNCHANGED <<aux, fileEnabled, listener, shutdown, net, store,
                   socket_path, rotation_enabled, server, accept_failed, ticked>>

\* Line 25: the task goes on only with rotation enabled.
RotationEnabledAlways(enabled) == TRUE
RotationEnabled(enabled) == enabled

\* Lines 25-29: with rotation disabled the task returns; otherwise it makes
\* its interval and enters the loop.
RotationStart ==
    /\ rotator = "start"
    /\ rotator' = IF RotationEnabled(rotation_enabled) THEN "select" ELSE "returned"
    /\ UNCHANGED <<aux, fileEnabled, listener, shutdown, net, store,
                   socket_path, rotation_enabled, server, accept_failed, ticked>>

\* RotationSettings.keep_files and StorageSettings.max_file_size (in chunks).
\* The task reads neither; the smallest values make the claims about them
\* the strictest.
keep_files == 0
max_file_size == 1

\* The names under which the files of a daemon would be archived
ArchivePaths(daemon_name) ==
    IF daemon_name = "A" THEN {"A.1", "A.2", "A.3", "A.4"}
    ELSE {"B.1", "B.2", "B.3", "B.4"}

\* Lines 33-35, the body of the tick branch: a comment.  The directory is
\* after a scan what it was before.
ScanTruncating(fs) == [p \in DOMAIN fs |-> <<>>]
ScanArchiving(fs) ==
    LET free == {p \in ArchivePaths("A") : p \notin DOMAIN fs}
    IN IF "A" \in DOMAIN fs /\ free # {}
       THEN Upd([fs EXCEPT !["A"] = <<>>], CHOOSE p \in free : TRUE, fs["A"])
       ELSE fs
Scan(fs) == fs

\* What the loop does after a tick: it selects again.
AfterTickExit(st) == "returned"
AfterTick(st) == st

\* select! branch rotation_interval.tick(): the first tick of an interval
\* is due at once, the later ones an hour apart.
RotationTick ==
    /\ rotator = "select"
    /\ ticked' = TRUE
    /\ files' = Scan(files)
    /\ rotator' = AfterTick(rotator)
    /\ UNCHANGED <<aux, fileEnabled, listener, shutdown, net,
                   pc, cur, file_writers, writers,
                   socket_path, rotation_enabled, server, accept_failed>>

\* select! branch shutdown_rx.recv() => break
RotationShutdown ==
    /\ rotator = "select"
    /\ recv_ready(shutdown) \/ recv_err(channel)
    /\ rotator' = "returned"
    /\ UNCHANGED <<aux, fileEnabled, listener, shutdown, net, store,
                   socket_path, rotation_enabled, server, accept_failed, ticked>>

\* ----------------------------------------- the server and a rotation task
\* A configuration is given, the server is built from it and started, a
\* rotation task is spawned beside it; peers send well-formed records for
\* one daemon, each shorter than the writer's buffer, and no file operation
\* fails.
ServerInit ==
    /\ fileEnabled = TRUE
    /\ listener = "init"
    /\ shutdown = FALSE
    /\ backlog = <<>>
    /\ conn = [c \in Conns |-> "idle"]
    /\ sent = [c \in Conns |-> <<>>]
    /\ res = [c \in Conns |-> <<>>]
    /\ pc = [c \in Conns |-> "read"]
    /\ cur = [c \in Conns |-> NoWriter]
    /\ file_writers = <<>>
    /\ writers = <<>>
    /\ files = <<>>
    /\ socket_path \in {"", "sock"}
    /\ rotation_enabled \in BOOLEAN
    /\ server = "none"
    /\ accept_failed = FALSE
    /\ rotator = "none"
    /\ ticked = FALSE
    /\ ent = <<>>
    /\ cli = <<>>
    /\ at_path \in PathKinds
    /\ closed = {}
    /\ acquired = <<>>
    /\ channel = "open"

ServerLines == {line \in Lines : line.daemon = "A"}

ServerNext ==
    \/ ServerNew
    \/ ServerStart
    \/ AcceptErr
    \/ ListenerAccept
    \/ ListenerShutdown
    \/ SendShutdown
    \/ \E c \in Conns : PeerConnect(c)
    \/ \E c \in Conns, line \in ServerLines : ReadLine(c, line)
    \/ \E c \in Conns : ReadEof(c)
    \/ \E c \in Conns : StoreOpen(c)
    \/ \E c \in Conns : StoreLock(c)
    \/ \E c \in Conns : StoreWrite(c, FALSE)
    \/ \E c \in Conns : StoreFlush(c)
    \/ SpawnRotationTask
    \/ RotationStart
    \/ RotationTick
    \/ RotationShutdown

ServerSpec == ServerInit /\ [][ServerNext]_vars

\* A spawned rotation task is polled by the runtime, and its select! polls
\* both branches: a task at its start takes its first step, and a pending
\* shutdown signal is eventually taken.
ServerFairSpec ==
    /\ ServerSpec
    /\ WF_vars(RotationStart)
    /\ WF_vars(RotationShutdown)

\* ------------------------------------------------- the shutdown channel
\* broadcast::channel(1) holds one signal.  A second send while the first
\* is not yet received overwrites it, and the receivers have lagged.
SendAgain ==
    /\ channel = "open"
    /\ shutdown
    /\ channel' = "lagged"
    /\ UNCHANGED <<ent, cli, at_path, closed, acquired, ctl, fileEnabled,
                   listener, shutdown, net, store>>

\* The last sender of the channel is dropped.
DropSenders ==
    /\ channel # "closed"
    /\ channel' = "closed"
    /\ UNCHANGED <<ent, cli, at_path, closed, acquired, ctl, fileEnabled,
                   listener, shutdown, net, store>>

\* A server with a valid configuration and rotation enabled, its listener,
\* a rotation task, peers that connect, and the owners of the senders.
ChannelInit ==
    /\ ServerInit
    /\ socket_path = "sock"
    /\ rotation_enabled
    /\ at_path = "none"

ChannelNext ==
    \/ ServerNew
    \/ ServerStart
    \/ ListenerAccept
    \/ ListenerShutdown
    \/ \E c \in Conns : PeerConnect(c)
    \/ SpawnRotationTask
    \/ RotationStart
    \/ RotationTick
    \/ RotationShutdown
    \/ SendShutdown
    \/ SendAgain
    \/ DropSenders

ChannelSpec == ChannelInit /\ [][ChannelNext]_vars

\* Both select! loops poll their recv branch whenever they are polled, and
\* a completed recv wakes the task.
ChannelFairSpec ==
    /\ ChannelSpec
    /\ WF_vars(ListenerShutdown)
    /\ WF_vars(RotationShutdown)

\* ------------------------------------------- the tasks and their peers
\* The peer of a connection closes its end.  What it wrote before stays in
\* the socket: the task still reads those lines, and then read_line
\* returns Ok(0).
PeerClose(c) ==
    /\ conn[c] \in {"queued", "open"}
    /\ c \notin closed
    /\ closed' = closed \cup {c}
    /\ UNCHANGED <<ent, cli, at_path, acquired, channel, ctl, fileEnabled,
                   listener, shutdown, net, store>>

ReadEofClosed(c) ==
    /\ c \in closed
    /\ ReadEof(c)

\* One step of the store call of task c, the rendering shorter than the
\* writer's buffer
StoreAction(c) ==
    \/ StoreOpen(c) \/ StoreOpenFail(c)
    \/ StoreLock(c)
    \/ StoreWrite(c, FALSE)
    \/ StoreFlush(c) \/ StoreFlushFail(c)

\* The peers send records of one daemon.
TaskLines == {line \in Lines : line.daemon = "A"}

TaskInit ==
    /\ Init
    /\ fileEnabled
    /\ at_path = "none"

TaskNext ==
    \/ ListenerBind
    \/ ListenerAccept
    \/ \E c \in Conns : PeerConnect(c)
    \/ \E c \in Conns : PeerClose(c)
    \/ \E c \in Conns, line \in TaskLines : ReadLine(c, line)
    \/ \E c \in Conns : ReadEofClosed(c)
    \/ \E c \in Conns : ReadErr(c)
    \/ \E c \in Conns : StoreAction(c)

TaskSpec == TaskInit /\ [][TaskNext]_vars

\* tokio polls every task that can go on, and its RwLock hands the lock to
\* the waiters in the order they came.
TaskStep(c) == ReadEofClosed(c) \/ StoreAction(c)

TaskFairSpec ==
    /\ TaskSpec
    /\ \A c \in Conns : WF_vars(TaskStep(c))

\* --------------------------------------- stores that all succeed, in order
OrderNext ==
    \/ ListenerBind
    \/ ListenerAccept
    \/ \E c \in Conns : PeerConnect(c)
    \/ \E c \in Conns, line \in TaskLines : ReadLine(c, line)
    \/ \E c \in Conns : ReadEof(c)
    \/ \E c \in Conns : StoreOpen(c)
    \/ \E c \in Conns : StoreLockRecorded(c)
    \/ \E c \in Conns : StoreWrite(c, FALSE)
    \/ \E c \in Conns : StoreFlush(c)

OrderSpec == TaskInit /\ [][OrderNext]_vars

\* ------------------------------------------------- the types on their own
\* No server is built: the specifications of LogEntry, LogLevel and
\* LogClient leave the server's variables as they are here.
NoServer ==
    /\ fileEnabled = TRUE
    /\ listener = "init"
    /\ shutdown = FALSE
    /\ backlog = <<>>
    /\ conn = [c \in Conns |-> "idle"]
    /\ sent = [c \in Conns |-> <<>>]
    /\ res = [c \in Conns |-> <<>>]
    /\ pc = [c \in Conns |-> "read"]
    /\ cur = [c \in Conns |-> NoWriter]
    /\ file_writers = <<>>
    /\ writers = <<>>
    /\ files = <<>>
    /\ socket_path = "sock"
    /\ rotation_enabled = FALSE
    /\ server = "none"
    /\ accept_failed = FALSE
    /\ rotator = "none"
    /\ ticked = FALSE
    /\ at_path = "none"
    /\ closed = {}
    /\ acquired = <<>>
    /\ channel = "open"

\* -------------------------------------------------------------- LogLevel
Levels == {"Emergency", "Alert", "Critical", "Error",
           "Warning", "Notice", "Info", "Debug"}

DiscriminantSwapped(l) ==
    CASE l = "Emergency" -> 0 [] l = "Alert"  -> 1 [] l = "Critical" -> 2
      [] l = "Error"     -> 3 [] l = "Notice" -> 4 [] l = "Warning"  -> 5
      [] l = "Info"      -> 6 [] l = "Debug"  -> 7

\* enum LogLevel { Emergency = 0, ..., Debug = 7 }
Discriminant(l) ==
    CASE l = "Emergency" -> 0 [] l = "Alert"  -> 1 [] l = "Critical" -> 2
      [] l = "Error"     -> 3 [] l = "Warning" -> 4 [] l = "Notice"  -> 5
      [] l = "Info"      -> 6 [] l = "Debug"  -> 7

\* derive(PartialOrd, Ord) on a fieldless enum compares the discriminants,
\* derive(PartialEq, Eq) the variants.
level_lt(a, b) == Discriminant(a) < Discriminant(b)
level_eq(a, b) == a = b

\* Two levels are given; the comparison operators are applied to them.
LevelInit ==
    /\ NoServer
    /\ cli = <<>>
    /\ ent \in [a : Levels, b : Levels, cmp : {<<>>}]

CompareLevels ==
    /\ ent.cmp = <<>>
    /\ ent' = [ent EXCEPT !.cmp = <<level_lt(ent.a, ent.b), level_eq(ent.a, ent.b)>>]
    /\ UNCHANGED <<cli, at_path, env, fileEnabled, listener, shutdown, net, store, ctl>>

LevelNext == CompareLevels

LevelSpec == LevelInit /\ [][LevelNext]_vars

\* -------------------------------------------------------------- LogEntry
\* A String is a sequence of characters.  Four of them matter to JSON: the
\* double quote, the backslash, and the control characters line feed and
\* tab; "n" is a letter, the one that also names the line-feed escape.
Chars == {"n", "quote", "bslash", "nl", "tab"}
Strs == UNION {[1..k -> Chars] : k \in 0..MaxLen}

\* Option<T>
None == <<>>
Some(v) == <<v>>

Uuids == {"u1"}
Timestamps == {"t1"}
Pids == {7}

Key1 == <<"n">>
Key2 == <<"quote">>
\* HashMap<String, String>: no pair, one pair, two pairs
FieldMaps ==
    { <<>>,
      [k \in {Key1} |-> <<"nl">>],
      [k \in {Key1, Key2} |-> IF k = Key1 THEN <<"tab">> ELSE <<"bslash">>] }

\* struct LogEntry
Entries ==
    [id : Uuids, timestamp : Timestamps, level : Levels,
     daemon : Strs, message : Strs, fields : FieldMaps,
     pid : {None} \cup {Some(p) : p \in Pids},
     hostname : {None, Some(<<"quote">>)}]

FieldNames == <<"id", "timestamp", "level", "daemon", "message", "fields",
                "pid", "hostname">>
Names == {FieldNames[i] : i \in 1..Len(FieldNames)}

\* ---- serde_json, writing
EscapeCharRaw(c) == <<c>>

\* serde_json writes a string's characters with the quote, the backslash
\* and the control characters escaped.
EscapeChar(c) ==
    CASE c = "quote"  -> <<"bslash", "quote">>
      [] c = "bslash" -> <<"bslash", "bslash">>
      [] c = "nl"     -> <<"bslash", "n">>
      [] c = "tab"    -> <<"bslash", "t">>
      [] OTHER        -> <<c>>

RECURSIVE Escape(_)
Escape(s) == IF s = <<>> THEN <<>> ELSE EscapeChar(Head(s)) \o Escape(Tail(s))

StrText(s) == <<"quote">> \o Escape(s) \o <<"quote">>

\* The orders a HashMap with these keys may be iterated in
RECURSIVE Orders(_)
Orders(K) ==
    IF K = {} THEN {<<>>}
    ELSE UNION {{<<k>> \o o : o \in Orders(K \ {k})} : k \in K}

RECURSIVE PairsText(_, _)
PairsText(m, ord) ==
    IF ord = <<>> THEN <<>>
    ELSE StrText(Head(ord)) \o <<":">> \o StrText(m[Head(ord)])
           \o (IF Len(ord) > 1 THEN <<",">> ELSE <<>>)
           \o PairsText(m, Tail(ord))

MapText(m, ord) == <<"{">> \o PairsText(m, ord) \o <<"}">>

NumText(n) == <<ToString(n)>>

\* Option<T>: None is null, Some(v) is v
OptionNumText(o) == IF o = None THEN <<"null">> ELSE NumText(o[1])
OptionStrText(o) == IF o = None THEN <<"null">> ELSE StrText(o[1])

\* What serde_json::to_string makes of each field of the entry, the map
\* being iterated in the order ord
MemberText(e, ord, name) ==
    CASE name = "id"        -> StrText(<<e.id>>)
      [] name = "timestamp" -> StrText(<<e.timestamp>>)
      [] name = "level"     -> StrText(<<e.level>>)
      [] name = "daemon"    -> StrText(e.daemon)
      [] name = "message"   -> StrText(e.message)
      [] name = "fields"    -> MapText(e.fields, ord)
      [] name = "pid"       -> OptionNumText(e.pid)
      [] name = "hostname"  -> OptionStrText(e.hostname)

\* A JSON document: an object or an array of the member texts, or another
\* JSON value; extra says that one more member, of a name the struct does
\* not have (in an array: one more element), follows.
\* LogEntry::to_json
to_json(e, ord) ==
    [shape |-> "object",
     members |-> [name \in Names |->
                    MemberText(e, ord, name)],
     extra |-> FALSE]

\* ---- serde_json, reading
Bad == [ok |-> FALSE, val |-> <<>>, rest |-> <<>>]

UnescapeChar(d) ==
    CASE d = "quote"  -> "quote"
      [] d = "bslash" -> "bslash"
      [] d = "n"      -> "nl"
      [] d = "t"      -> "tab"

\* The characters of a string up to its closing quote, t being the text
\* after the opening quote: an escape stands for its character, a control
\* character that is not escaped is an error.
RECURSIVE ScanStr(_, _)
ScanStr(t, acc) ==
    IF t = <<>> THEN Bad
    ELSE IF Head(t) = "quote" THEN [ok |-> TRUE, val |-> acc, rest |-> Tail(t)]
    ELSE IF Head(t) = "bslash"
         THEN IF Len(t) >= 2 /\ t[2] \in {"quote", "bslash", "n", "t"}
              THEN ScanStr(SubSeq(t, 3, Len(t)), Append(acc, UnescapeChar(t[2])))
              ELSE Bad
    ELSE IF Head(t) \in {"nl", "tab"} THEN Bad
    ELSE ScanStr(Tail(t), Append(acc, Head(t)))

\* A string at the head of t
ReadStr(t) ==
    IF t # <<>> /\ Head(t) = "quote" THEN ScanStr(Tail(t), <<>>) ELSE Bad

\* A text that is one string and nothing else
ParseStr(t) ==
    LET r == ReadStr(t) IN IF r.ok /\ r.rest = <<>> THEN r ELSE Bad

\* The pairs of an object of strings, t being the text after "{" or ","
RECURSIVE ScanPairs(_, _)
ScanPairs(t, acc) ==
    LET k == ReadStr(t) IN
    IF ~k.ok \/ k.rest = <<>> \/ Head(k.rest) # ":" THEN Bad
    ELSE LET v == ReadStr(Tail(k.rest)) IN
         IF ~v.ok \/ v.rest = <<>> THEN Bad
         ELSE LET m == [x \in DOMAIN acc \cup {k.val} |->
                          IF x = k.val THEN v.val ELSE acc[x]]
              IN  IF v.rest = <<"}">> THEN [ok |-> TRUE, val |-> m, rest |-> <<>>]
                  ELSE IF Head(v.rest) = "," THEN ScanPairs(Tail(v.rest), m)
                  ELSE Bad

\* HashMap<String, String>
ParseMap(t) ==
    IF t = <<"{", "}">> THEN [ok |-> TRUE, val |-> <<>>, rest |-> <<>>]
    ELSE IF t # <<>> /\ Head(t) = "{" THEN ScanPairs(Tail(t), <<>>)
    ELSE Bad

\* Option<T>: null is None, another text is read as a T
ParseOption(t, r) ==
    IF t = <<"null">> THEN [ok |-> TRUE, val |-> None, rest |-> <<>>]
    ELSE IF r.ok THEN [ok |-> TRUE, val |-> Some(r.val), rest |-> <<>>] ELSE Bad

\* u32
ParseNum(t) ==
    IF \E p \in Pids : t = NumText(p)
    THEN [ok |-> TRUE, val |-> CHOOSE p \in Pids : t = NumText(p), rest |-> <<>>]
    ELSE Bad

\* A string that is one of the given names (a Uuid, a DateTime, a LogLevel)
ParseName(t, names) ==
    LET r == ParseStr(t) IN
    IF r.ok /\ Len(r.val) = 1 /\ r.val[1] \in names
    THEN [ok |-> TRUE, val |-> r.val[1], rest |-> <<>>] ELSE Bad

ParseMember(name, t) ==
    CASE name = "id"        -> ParseName(t, Uuids)
      [] name = "timestamp" -> ParseName(t, Timestamps)
      [] name = "level"     -> ParseName(t, Levels)
      [] name = "daemon"    -> ParseStr(t)
      [] name = "message"   -> ParseStr(t)
      [] name = "fields"    -> ParseMap(t)
      [] name = "pid"       -> ParseOption(t, ParseNum(t))
      [] name = "hostname"  -> ParseOption(t, ParseStr(t))

ParseError == [ok |-> FALSE]

\* The members a JSON object must have: a missing Option member is None.
Required == {"id", "timestamp", "level", "daemon", "message", "fields"}

\* The JSON values the derived Deserialize of a struct reads: an object,
\* by its member names, and an array, by position.
StructShape(shape) == shape \in {"object", "array"}

\* LogEntry::from_json
from_json(doc) ==
    LET names == DOMAIN doc.members
        all == Names
        value(name) ==
            IF name \in names THEN ParseMember(name, doc.members[name])
            ELSE [ok |-> TRUE, val |-> None, rest |-> <<>>]
        complete ==
            IF doc.shape = "array" THEN names = all /\ ~doc.extra
            ELSE Required \subseteq names
    IN  IF ~StructShape(doc.shape) \/ ~complete
           \/ \E name \in all : ~value(name).ok
        THEN ParseError
        ELSE [ok |-> TRUE,
              e |-> [name \in all |-> value(name).val]]

\* ---- the text of a line
\* impl Display for LogLevel
LevelName(l) ==
    CASE l = "Emergency" -> "EMERG" [] l = "Alert"   -> "ALERT"
      [] l = "Critical"  -> "CRIT"  [] l = "Error"   -> "ERROR"
      [] l = "Warning"   -> "WARN"  [] l = "Notice"  -> "NOTICE"
      [] l = "Info"      -> "INFO"  [] l = "Debug"   -> "DEBUG"

\* LogEntry::to_human_readable: format!("{} {} {}: {}", ...), the daemon
\* name and the message as they are
to_human_readable(e) ==
    <<e.timestamp, " ", LevelName(e.level), " ">> \o e.daemon
        \o <<":", " ">> \o e.message

\* The characters of an object as to_json writes it
RECURSIVE MembersText(_, _)
MembersText(doc, i) ==
    IF i > Len(FieldNames) THEN <<>>
    ELSE <<"quote", FieldNames[i], "quote", ":">> \o doc.members[FieldNames[i]]
           \o (IF i < Len(FieldNames) THEN <<",">> ELSE <<>>)
           \o MembersText(doc, i + 1)

JsonLine(doc) == <<"{">> \o MembersText(doc, 1) \o <<"}">>

Formats == {"json", "human"}

\* store_to_file: the match on config.backends.file.format
Render(format, e, ord) ==
    IF format = "json" THEN JsonLine(to_json(e, ord)) ELSE to_human_readable(e)

\* The lines of a file: it ends with a line feed whenever it is not empty
LineCount(f) == Cardinality({i \in 1..Len(f) : f[i] = "nl"})

\* ---- an entry is rendered, read back and stored
\* The daemon names: none, a letter, a line feed, a quote
EntryDaemons == {<<>>, <<"n">>, <<"nl">>, <<"quote">>}

EntryInit ==
    /\ NoServer
    /\ cli = <<>>
    /\ \E e \in Entries :
         /\ e.daemon \in EntryDaemons
         /\ ent = [e |-> e, doc |-> None, parsed |-> None,
                   file |-> <<>>, stored |-> 0]

\* entry.to_json() in the client
ToJson ==
    /\ ent.doc = None
    /\ \E ord \in Orders(DOMAIN ent.e.fields) :
         ent' = [ent EXCEPT !.doc = Some(to_json(ent.e, ord))]
    /\ UNCHANGED <<cli, at_path, env, fileEnabled, listener, shutdown, net, store, ctl>>

\* LogEntry::from_json(&line) in handle_connection
FromJson ==
    /\ ent.doc # None
    /\ ent.parsed = None
    /\ ent' = [ent EXCEPT !.parsed = Some(from_json(ent.doc[1]))]
    /\ UNCHANGED <<cli, at_path, env, fileEnabled, listener, shutdown, net, store, ctl>>

\* store_to_file of the entry that was read, with no I/O error
StoreEntry ==
    /\ ent.parsed # None
    /\ ent.parsed[1].ok
    /\ ent.stored = 0
    /\ \E format \in Formats, ord \in Orders(DOMAIN ent.parsed[1].e.fields) :
         ent' = [ent EXCEPT
                   !.file = @ \o Render(format, ent.parsed[1].e, ord) \o <<"nl">>,
                   !.stored = @ + 1]
    /\ UNCHANGED <<cli, at_path, env, fileEnabled, listener, shutdown, net, store, ctl>>

EntryNext == ToJson \/ FromJson \/ StoreEntry

EntrySpec == EntryInit /\ [][EntryNext]_vars

\* ---- a line arrives and is read
\* The lines a peer may send in place of the rendering doc: a member left
\* out, a member the struct does not have added, the values as an array,
\* a JSON value that is neither object nor array.
Without(doc, name) ==
    [doc EXCEPT !.members = [x \in DOMAIN doc.members \ {name} |-> doc.members[x]]]
WithExtra(doc) == [doc EXCEPT !.extra = TRUE]
Shaped(doc, shape) ==
    IF shape = "other" THEN [shape |-> shape, members |-> <<>>, extra |-> FALSE]
    ELSE [doc EXCEPT !.shape = shape]

LineEntries == {e \in Entries : e.level = "Info" /\ e.daemon = <<"n">>}

ParseInit ==
    /\ NoServer
    /\ cli = <<>>
    /\ \E e \in LineEntries :
         \E ord \in Orders(DOMAIN e.fields), drop \in {""} \cup Names,
            extra \in BOOLEAN, shape \in {"object", "array", "other"} :
           LET d0 == to_json(e, ord)
               d1 == IF drop = "" THEN d0 ELSE Without(d0, drop)
               d2 == IF extra THEN WithExtra(d1) ELSE d1
           IN  ent = [e |-> e, doc |-> Some(Shaped(d2, shape)), parsed |-> None,
                      file |-> <<>>, stored |-> 0]

ParseNext == FromJson

ParseSpec == ParseInit /\ [][ParseNext]_vars

\* ------------------------------------- store calls whose file operations
\* ------------------------------------- all complete
\* Records of both daemons arrive on every connection, each shorter than
\* the writer's buffer; first stores race, and every open, write and flush
\* returns, with Ok or with an error.
StoresLines == {line \in Lines : Parses(line)}

StoresNext ==
    \/ ListenerBind
    \/ ListenerAccept
    \/ \E c \in Conns : PeerConnect(c)
    \/ \E c \in Conns, line \in StoresLines : ReadLine(c, line)
    \/ \E c \in Conns : StoreOpen(c)
    \/ \E c \in Conns : StoreOpenFail(c)
    \/ \E c \in Conns : StoreLock(c)
    \/ \E c \in Conns : StoreWrite(c, FALSE)
    \/ \E c \in Conns : StoreFlush(c)
    \/ \E c \in Conns : StoreFlushFail(c)

StoresSpec == TaskInit /\ [][StoresNext]_vars

\* A file operation that was started completes, and tokio's RwLock is fair:
\* a task waiting in write() gets the lock although others take it and
\* release it in the meantime.
FileStep(c) ==
    \/ StoreOpen(c) \/ StoreOpenFail(c)
    \/ StoreWrite(c, FALSE)
    \/ StoreFlush(c) \/ StoreFlushFail(c)

StoresFairSpec ==
    /\ StoresSpec
    /\ \A c \in Conns : WF_vars(FileStep(c)) /\ SF_vars(StoreLock(c))

\* -------------------------------------------------- get_log_file_path
\* A daemon name as a producer may send it: letters, dots and slashes.
PathChars == {"d", ".", "/"}
DaemonNames == UNION {[1..k -> PathChars] : k \in 0..(MaxLen + 1)}

\* The segments of a string between its slashes
RECURSIVE Segments(_, _)
Segments(str, seg) ==
    IF str = <<>> THEN <<seg>>
    ELSE IF Head(str) = "/" THEN <<seg>> \o Segments(Tail(str), <<>>)
    ELSE Segments(Tail(str), Append(seg, Head(str)))

\* Path::components: a leading slash is the root; empty segments and "."
\* are skipped, ".." is kept.
Components(str) ==
    [abs |-> str # <<>> /\ Head(str) = "/",
     comps |-> SelectSeq(Segments(str, <<>>), LAMBDA g : g # <<>> /\ g # <<".">>)]

\* config.storage.output_directory: the default, and a relative one
OutputDirectories ==
    {[abs |-> TRUE, comps |-> << <<"var">>, <<"log">>, <<"logstream">> >>],
     [abs |-> FALSE, comps |-> << <<"logs">> >>]}

\* Path::join: an absolute path replaces the base, a relative one is
\* appended to it.
join(base, p) ==
    IF p.abs THEN p ELSE [abs |-> base.abs, comps |-> base.comps \o p.comps]

\* format!("{}.log", daemon_name)
LogFileName(daemon_name) == daemon_name \o <<".log">>

\* get_log_file_path for the output directory dir
LogFilePath(dir, daemon_name) == join(dir, Components(LogFileName(daemon_name)))

\* The directory entries the kernel walks for a path: ".." leaves the
\* directory reached so far (the root stays the root; above a relative
\* path's start there are directories as well, named "..").
RECURSIVE Walk(_, _, _)
Walk(comps, at, abs) ==
    IF comps = <<>> THEN at
    ELSE IF Head(comps) = <<".", ".">>
         THEN IF at # <<>> /\ at[Len(at)] # <<".", ".">>
              THEN Walk(Tail(comps), SubSeq(at, 1, Len(at) - 1), abs)
              ELSE IF abs THEN Walk(Tail(comps), at, abs)
              ELSE Walk(Tail(comps), Append(at, <<".", ".">>), abs)
         ELSE Walk(Tail(comps), Append(at, Head(comps)), abs)

\* OpenOptions::open(file_path) with create and append: the directory the
\* file is in and its name there
Opened(path) ==
    LET w == Walk(path.comps, <<>>, path.abs)
    IN  [abs |-> path.abs,
         dir |-> IF w = <<>> THEN <<>> ELSE SubSeq(w, 1, Len(w) - 1),
         name |-> IF w = <<>> THEN <<>> ELSE w[Len(w)]]

PathInit ==
    /\ NoServer
    /\ cli = <<>>
    /\ \E dir \in OutputDirectories, name \in DaemonNames :
         ent = [dir |-> dir, daemon |-> name, path |-> None, file |-> None]

\* let file_path = self.get_log_file_path(daemon_name)
GetLogFilePath ==
    /\ ent.path = None
    /\ ent' = [ent EXCEPT !.path = Some(LogFilePath(ent.dir, ent.daemon))]
    /\ UNCHANGED <<cli, at_path, env, fileEnabled, listener, shutdown, net, store, ctl>>

\* self.create_file_writer(&file_path)
CreateFileWriter ==
    /\ ent.path # None
    /\ ent.file = None
    /\ ent' = [ent EXCEPT !.file = Some(Opened(ent.path[1]))]
    /\ UNCHANGED <<cli, at_path, env, fileEnabled, listener, shutdown, net, store, ctl>>

PathNext == GetLogFilePath \/ CreateFileWriter

PathSpec == PathInit /\ [][PathNext]_vars

\* -------------------------------------------------------------- LogClient
\* The connections a client opened are numbered in the order they were
\* opened.  cli.alive holds those whose server end is still open,
\* cli.listening says that a server is bound at "sock", cli.calls is the
\* list of the calls made on the client: <<operation, result, connection
\* it wrote to (0: none)>>.
ClientValidateAny(socket_path_, daemon_name) == TRUE

\* ClientConfig::validate
ClientValidate(socket_path_, daemon_name) ==
    socket_path_ # "" /\ daemon_name # ""

ClientInit ==
    /\ NoServer
    /\ ent = <<>>
    /\ \E p \in {"", "sock"}, d \in {"", "d"}, l \in BOOLEAN :
         cli = [socket_path |-> p, daemon_name |-> d, client |-> "none",
                connection |-> None, opened |-> 0, attempts |-> 0,
                alive |-> {}, listening |-> l, calls |-> <<>>]

\* UnixStream::connect within the timeout: a stream when a server listens
Connected(c) ==
    [c EXCEPT !.attempts = @ + 1,
              !.opened = @ + 1,
              !.connection = Some(c.opened + 1),
              !.alive = @ \cup {c.opened + 1}]
ConnectFailed(c) == [c EXCEPT !.attempts = @ + 1]

\* ensure_connected: connects only when the client holds no connection
NeedsConnect(c) == c.connection = None
ensure_connected(c) ==
    IF ~NeedsConnect(c) THEN [ok |-> TRUE, c |-> c]
    ELSE IF c.listening THEN [ok |-> TRUE, c |-> Connected(c)]
    ELSE [ok |-> FALSE, c |-> ConnectFailed(c)]

\* LogClient::with_config
WithConfig ==
    /\ cli.client = "none"
    /\ IF ~ClientValidate(cli.socket_path, cli.daemon_name)
       THEN cli' = [cli EXCEPT !.client = "config_err"]
       ELSE LET r == ensure_connected(cli) IN
            cli' = [r.c EXCEPT !.client = IF r.ok THEN "built" ELSE "connection_err"]
    /\ UNCHANGED <<ent, at_path, env, fileEnabled, listener, shutdown, net, store, ctl>>

\* LogClient::log: the entry is rendered, ensure_connected, then write_all
\* and flush on the connection the client holds.
Log ==
    /\ cli.client = "built"
    /\ Len(cli.calls) < MaxCalls
    /\ LET r == ensure_connected(cli) IN
       IF ~r.ok
       THEN cli' = [r.c EXCEPT !.calls = Append(@, <<"log", "connection_err", 0>>)]
       ELSE LET id == r.c.connection[1] IN
            IF id \in r.c.alive
            THEN cli' = [r.c EXCEPT !.calls = Append(@, <<"log", "ok", id>>)]
            ELSE cli' = [r.c EXCEPT !.calls = Append(@, <<"log", "io_err", 0>>)]
    /\ UNCHANGED <<ent, at_path, env, fileEnabled, listener, shutdown, net, store, ctl>>

TakeKept(connection) == connection

\* conn_guard.take()
Take(connection) == None

\* LogClient::close: the connection is taken out of the client and shut
\* down; shutting down a stream whose peer is gone may fail.
Close ==
    /\ cli.client = "built"
    /\ Len(cli.calls) < MaxCalls
    /\ IF cli.connection = None
       THEN cli' = [cli EXCEPT !.calls = Append(@, <<"close", "ok", 0>>)]
       ELSE \E outcome \in {"ok", "io_err"} :
              /\ outcome = "io_err" => cli.connection[1] \notin cli.alive
              /\ cli' = [cli EXCEPT !.connection = Take(@),
                                    !.alive = @ \ {cli.connection[1]},
                                    !.calls = Append(@, <<"close", outcome, 0>>)]
    /\ UNCHANGED <<ent, at_path, env, fileEnabled, listener, shutdown, net, store, ctl>>

\* The server end of a connection is closed: the task returned.
PeerClosed ==
    /\ \E id \in cli.alive : cli' = [cli EXCEPT !.alive = @ \ {id}]
    /\ UNCHANGED <<ent, at_path, env, fileEnabled, listener, shutdown, net, store, ctl>>

\* A server binds the socket path, or the one that was bound goes away
\* together with its connections.
ServerUp ==
    /\ ~cli.listening
    /\ cli' = [cli EXCEPT !.listening = TRUE]
    /\ UNCHANGED <<ent, at_path, env, fileEnabled, listener, shutdown, net, store, ctl>>

ServerDown ==
    /\ cli.listening
    /\ cli' = [cli EXCEPT !.listening = FALSE, !.alive = {}]
    /\ UNCHANGED <<ent, at_path, env, fileEnabled, listener, shutdown, net, store, ctl>>

ClientNext ==
    \/ WithConfig
    \/ Log
    \/ Close
    \/ PeerClosed
    \/ ServerUp
    \/ ServerDown

ClientSpec == ClientInit /\ [][ClientNext]_vars

\* ---- a client and its clones
\* LogClient is Clone and its connection is shared (Arc<Mutex<..>>): one
\* clone calls log while another calls close.  log takes the mutex twice,
\* in ensure_connected and again for the write; in_log says that a log call
\* is between the two.
CloneInit ==
    /\ NoServer
    /\ ent = <<>>
    /\ \E l \in BOOLEAN :
         cli = [socket_path |-> "sock", daemon_name |-> "d", client |-> "none",
                connection |-> None, opened |-> 0, attempts |-> 0,
                alive |-> {}, listening |-> l, calls |-> <<>>,
                in_log |-> FALSE]

\* log up to self.ensure_connected().await?
LogCheck ==
    /\ cli.client = "built"
    /\ ~cli.in_log
    /\ Len(cli.calls) < MaxCalls
    /\ LET r == ensure_connected(cli) IN
       IF ~r.ok
       THEN cli' = [r.c EXCEPT !.calls = Append(@, <<"log", "connection_err", 0>>)]
       ELSE cli' = [r.c EXCEPT !.in_log = TRUE]
    /\ UNCHANGED <<ent, at_path, env, fileEnabled, listener, shutdown, net, store, ctl>>

\* log from self.connection.lock().await: the record is written when the
\* client holds a connection, and Ok(()) is returned in either case.
LogWrite ==
    /\ cli.client = "built"
    /\ cli.in_log
    /\ LET outcome ==
             IF cli.connection = None THEN <<"log", "ok", 0>>
             ELSE IF cli.connection[1] \in cli.alive
                  THEN <<"log", "ok", cli.connection[1]>>
                  ELSE <<"log", "io_err", 0>>
       IN  cli' = [cli EXCEPT !.in_log = FALSE, !.calls = Append(@, outcome)]
    /\ UNCHANGED <<ent, at_path, env, fileEnabled, listener, shutdown, net, store, ctl>>

CloneNext ==
    \/ WithConfig
    \/ LogCheck
    \/ LogWrite
    \/ Close
    \/ PeerClosed
    \/ ServerUp
    \/ ServerDown

CloneSpec == CloneInit /\ [][CloneNext]_vars

\* ------------------------------------------------------- derived notions
\* Positions on connection c of the records for daemon k
RecordsOf(c, k) == {i \in 1..Len(sent[c]) : sent[c][i].daemon = k}

\* The lines of records i..n of connection c that are for daemon k, in order
RECURSIVE LinesFrom(_, _, _)
LinesFrom(c, k, i) ==
    IF i > Len(sent[c]) THEN <<>>
    ELSE (IF sent[c][i].daemon = k THEN <<Body(c, i), NL>> ELSE <<>>)
           \o LinesFrom(c, k, i + 1)

Contents(k) == IF get_log_file_path(k) \in DOMAIN files
               THEN files[get_log_file_path(k)] ELSE <<>>

InWriteSection(c) == Running(c) /\ pc[c] \in {"write", "flush"}
InStore(c) == Running(c) /\ pc[c] # "read"
StoreFailed == \E c \in Conns : conn[c] = "returned_err"

\* The stores of connection c that returned Ok(()) for a record of daemon k
Stored(c, k) == {i \in RecordsOf(c, k) : i <= Len(res[c]) /\ res[c][i] = "ok"}

\* Every chunk of the file is part of an intact line: a body at each odd
\* position, its newline right after it.
IntactLines(f) ==
    /\ Len(f) % 2 = 0
    /\ \A j \in 1..Len(f) : IF j % 2 = 1 THEN f[j][1] = "body" ELSE f[j] = NL

Occurrences(f, chunk) == Cardinality({j \in 1..Len(f) : f[j] = chunk})

\* ------------------------------------------------------------------ claims

\* C1: when a connection is the only one to send records for daemon D and
\* its task has returned Ok(()) (every record it read was stored, no store
\* call failed), D's file holds exactly one line per record the connection
\* sent for D, in the order they were sent.
C1_SingleConnectionOrder ==
    \A c \in Conns, k \in Keys :
        ( /\ fileEnabled
          /\ conn[c] = "returned_ok"
          /\ \A d \in Conns \ {c} : RecordsOf(d, k) = {} )
        => Contents(k) = LinesFrom(c, k, 1)

C1_Witness ==
    \E c \in Conns, k \in Keys :
        /\ fileEnabled /\ conn[c] = "returned_ok"
        /\ Cardinality(RecordsOf(c, k)) = 2
        /\ Contents(k) = <<Body(c, 1), NL, Body(c, 2), NL>>

\* C2: once no store call is in progress and none has failed, the file of
\* every daemon key holds exactly one intact line per record stored for the
\* key, whichever connections stored them: nothing lost, nothing twice,
\* no line broken by another record's bytes.
C2_ConcurrentStoresIntact ==
    ( /\ fileEnabled
      /\ ~StoreFailed
      /\ \A c \in Conns : ~InStore(c) )
    => \A k \in Keys :
         /\ IntactLines(Contents(k))
         /\ \A c \in Conns : \A i \in RecordsOf(c, k) :
              Occurrences(Contents(k), Body(c, i)) = 1

\* C3: for every daemon key, at most one store call is inside the
\* append+flush section (lines 55-60) of that key's file.
C3_OneWriterPerKey ==
    \A c, d \in Conns :
        (InWriteSection(c) /\ InWriteSection(d) /\ writers[cur[c]].path = writers[cur[d]].path)
        => c = d

\* C4: at most one writer is ever created for a daemon key, and the cache
\* entry of a key, once set, is never replaced.
C4_SingleWriterPerKey ==
    \A w, v \in DOMAIN writers : writers[w].path = writers[v].path => w = v

\* C5: a store call waits only at the write lock, and then only for a store
\* call of the same daemon key: whatever a store call for key A is doing,
\* every store call for another key B has a step to take.
StoreStep(c) ==
    \/ StoreOpen(c) \/ StoreOpenFail(c)
    \/ StoreLock(c)
    \/ \E big \in BOOLEAN : StoreWrite(c, big)
    \/ StoreWriteFail(c)
    \/ StoreFlush(c) \/ StoreFlushFail(c)

C5_NoCrossKeyBlocking ==
    \A c \in Conns :
        (InStore(c) /\ ~ENABLED StoreStep(c))
        => /\ pc[c] = "lock"
           /\ \E d \in Conns \ {c} :
                /\ writers[cur[c]].holder = d
                /\ InWriteSection(d)
                /\ CurKey(d) = CurKey(c)

C5_Witness ==
    \E c, d \in Conns :
        /\ InWriteSection(c) /\ CurKey(c) = "A"
        /\ InStore(d) /\ CurKey(d) = "B"
        /\ pc[d] = "lock" /\ ENABLED StoreLock(d)

\* C6: with the file backend enabled, every record whose store call has
\* returned Ok(()) stands in its daemon's file as its rendered line
\* immediately followed by a newline.
C6_StoredOnReturn ==
    fileEnabled =>
      \A c \in Conns : \A i \in 1..Len(res[c]) :
        res[c][i] = "ok" =>
          \E j \in 1..(Len(Contents(sent[c][i].daemon)) - 1) :
            /\ Contents(sent[c][i].daemon)[j] = Body(c, i)
            /\ Contents(sent[c][i].daemon)[j + 1] = NL

\* C7: with the file backend disabled no file exists, no writer is created
\* or cached, no store call is ever suspended or fails, and every store call
\* made so far has returned Ok(()).
C7_DisabledBackendNoEffect ==
    ~fileEnabled =>
      /\ DOMAIN files = {}
      /\ DOMAIN file_writers = {}
      /\ DOMAIN writers = {}
      /\ \A c \in Conns :
           /\ pc[c] = "read"
           /\ conn[c] # "returned_err"
           /\ Len(res[c]) = Len(sent[c])
           /\ \A i \in 1..Len(res[c]) : Parses(sent[c][i]) => res[c][i] = "ok"

C7_Witness ==
    /\ ~fileEnabled
    /\ \E c \in Conns : res[c] = <<"ok", "ok">>

\* C8: a line that is not a log entry is dropped: the step that reads it
\* leaves the connection open at its read loop and changes neither the
\* files, the writers nor the cache; no chunk of any file or buffer comes
\* from such a line; and every well-formed line read, whatever was dropped
\* before it, is handed to store, its body standing in the file once store
\* has returned Ok(()).
ChunkSources ==
    UNION {{<<ch[2], ch[3]>> : ch \in {files[f][j] : j \in 1..Len(files[f])}} : f \in DOMAIN files}
      \cup UNION {{<<ch[2], ch[3]>> : ch \in {writers[w].buf[j] : j \in 1..Len(writers[w].buf)}} :
                    w \in DOMAIN writers}

C8_Inv ==
    /\ \A r \in ChunkSources \ {<<0, 0>>} : Parses(sent[r[1]][r[2]])
    /\ \A c \in Conns :
         /\ Len(res[c]) \in {Len(sent[c]), Len(sent[c]) - 1}
         /\ \A i \in 1..Len(res[c]) :
              /\ (res[c][i] = "drop") <=> ~Parses(sent[c][i])
              /\ (res[c][i] = "ok" /\ fileEnabled)
                   => Occurrences(Contents(sent[c][i].daemon), Body(c, i)) = 1

C8_Step ==
    \A c \in Conns :
        (Len(sent'[c]) > Len(sent[c]) /\ ~Parses(sent'[c][Len(sent'[c])]))
        => /\ conn'[c] = "open" /\ pc'[c] = "read"
           /\ res'[c] = Append(res[c], "drop")
           /\ UNCHANGED <<file_writers, writers, files, cur>>

C8_MalformedLineDropped == [](C8_Inv) /\ [][C8_Step]_vars

C8_Witness ==
    \E c \in Conns :
        /\ fileEnabled /\ conn[c] = "open"
        /\ Len(sent[c]) = 2
        /\ ~Parses(sent[c][1]) /\ Parses(sent[c][2])
        /\ res[c] = <<"drop", "ok">>
        /\ Contents(sent[c][2].daemon) = <<Body(c, 2), NL>>

\* C9: the step in which a store call fails and ends its connection's task
\* leaves the listener, the backlog, every other connection's task, the
\* cache, every other writer and every other file as they were, and leaves
\* no lock held; a lock is only ever held by a running task inside its write
\* section, and the listener never fails once it accepts connections.
C9_Inv ==
    /\ \A w \in DOMAIN writers :
         writers[w].holder # NoHolder
           => InWriteSection(writers[w].holder) /\ cur[writers[w].holder] = w
    /\ (\E c \in Conns : conn[c] # "idle") => listener # "returned_err"

C9_Step ==
    \A c \in Conns :
        (conn[c] = "open" /\ conn'[c] = "returned_err")
        => /\ listener' = listener /\ backlog' = backlog
           /\ \A d \in Conns \ {c} :
                /\ conn'[d] = conn[d] /\ pc'[d] = pc[d] /\ cur'[d] = cur[d]
                /\ res'[d] = res[d] /\ sent'[d] = sent[d]
           /\ file_writers' = file_writers
           /\ DOMAIN files' = DOMAIN files /\ DOMAIN writers' = DOMAIN writers
           /\ \A f \in DOMAIN files :
                f # get_log_file_path(CurKey(c)) => files'[f] = files[f]
           /\ \A w \in DOMAIN writers :
                /\ w # cur[c] => writers'[w] = writers[w]
                /\ writers'[w].holder # c

C9_ErrorsStayLocal == [](C9_Inv) /\ [][C9_Step]_vars

C9_Witness ==
    \E c, d \in Conns :
        /\ conn[c] = "returned_err" /\ conn[d] = "open"
        /\ listener = "accepting"
        /\ res[d] = <<"ok">>
        /\ sent[d][1].daemon # sent[c][Len(sent[c])].daemon
        /\ Contents(sent[d][1].daemon) = <<Body(d, 1), NL>>

\* C10: whenever a shutdown signal is in the channel while the listener is
\* in its accept loop, start eventually returns Ok(()); and once start has
\* returned it stays returned, accepts no connection and spawns no task.
C10_Stopped ==
    listener = "returned_ok"
    => /\ listener' = "returned_ok"
       /\ backlog' = backlog
       /\ \A c \in Conns : conn[c] \in {"idle", "queued"} => conn'[c] = conn[c]

C10_ShutdownStopsListener ==
    /\ (shutdown /\ listener = "accepting") ~> (listener = "returned_ok")
    /\ [][C10_Stopped]_vars

C10_Witness ==
    /\ listener = "returned_ok"
    /\ \E c \in Conns : conn[c] = "queued"

\* C11: a connection task outlives the listener.  The step in which start
\* returns leaves every task, its store call and its connection as they
\* were; with start returned, a task at its read loop still reads whatever
\* line its peer sends next and hands a well-formed one to store; and a
\* task only ever ends from its read loop (peer closed, or read error) or
\* with a store call that returned an error.
C11_Inv ==
    \A c \in Conns :
        (listener = "returned_ok" /\ conn[c] = "open" /\ pc[c] = "read"
           /\ TotalSent < MaxSent)
        => \A line \in Lines : ENABLED ReadLine(c, line)

C11_Step ==
    /\ (listener = "accepting" /\ listener' = "returned_ok")
         => UNCHANGED <<conn, sent, res, store>>
    /\ \A c \in Conns :
         /\ (conn[c] = "open" /\ conn'[c] # "open")
              => \/ conn'[c] = "returned_ok" /\ pc[c] = "read"
                 \/ /\ conn'[c] = "returned_err" /\ pc[c] # "read"
                    /\ res'[c] = Append(res[c], "err")
         /\ (listener = "returned_ok" /\ Len(sent'[c]) > Len(sent[c]))
              => /\ conn[c] = "open"
                 /\ (Parses(sent'[c][Len(sent'[c])]) /\ fileEnabled)
                      => pc'[c] \in {"open", "lock"}

C11_TaskOutlivesListener == [](C11_Inv) /\ [][C11_Step]_vars

C11_Witness ==
    \E c \in Conns :
        /\ listener = "returned_ok" /\ conn[c] = "open"
        /\ res[c] = <<"ok">> /\ pc[c] = "flush"
        /\ Contents(sent[c][1].daemon) = <<Body(c, 1), NL>>

C12_Inv ==
    /\ listener = "returned_err"
         => /\ ServerStartResult = "returned_err"
            /\ \A c \in Conns : conn[c] = "idle"
            /\ ~accept_failed
    /\ (listener = "accepting" /\ backlog # <<>>) => ENABLED ListenerAccept

C12_Step ==
    /\ (listener = "init" /\ listener' # listener)
         => listener' \in {"accepting", "returned_err"}
    /\ (listener # "init" /\ listener' = "returned_err") => listener = "returned_err"
    /\ (~accept_failed /\ accept_failed')
         => listener = "accepting" /\ listener' = "accepting"
            /\ UNCHANGED <<net, store, shutdown>>

C13_StartRunsRotation ==
    /\ (server = "built" /\ listener = "accepting") => rotator # "none"
    /\ (ServerStartResult = "returned_ok" /\ shutdown) => rotator \in {"returned"}

\* C14: new validates before anything else.  With an empty socket path it
\* returns the configuration error, no server exists, and nothing was
\* opened and nothing ever is: no socket bound, no file, no writer, no
\* connection, no task.  With a valid path the server is built with the
\* socket unbound and no file or writer; the socket is bound only by start,
\* and a file or a writer exists only once a store call was made.
C14_ValidateBeforeOpen ==
    /\ server = "config_err" <=> (server # "none" /\ socket_path = "")
    /\ server \in {"none", "config_err"}
         => /\ listener = "init" /\ backlog = <<>>
            /\ \A c \in Conns : conn[c] = "idle" /\ sent[c] = <<>>
            /\ files = <<>> /\ writers = <<>> /\ file_writers = <<>>
            /\ rotator = "none"
    /\ server = "config_err" => ~ENABLED ServerStart /\ ~ENABLED SpawnRotationTask
    /\ (server = "built" /\ listener = "init")
         => files = <<>> /\ writers = <<>> /\ file_writers = <<>>
    /\ (files # <<>> \/ writers # <<>> \/ file_writers # <<>>)
         => \E c \in Conns : sent[c] # <<>>

C14_Witness ==
    /\ server = "config_err" /\ socket_path = ""
    /\ listener = "init" /\ files = <<>>
    /\ shutdown

\* The file of daemon k is over the size threshold
Exceeds(k) == Len(Contents(k)) > max_file_size

\* The archived files of daemon k
Archives(k) == ArchivePaths(k) \cap DOMAIN files

\* C15: a scan tick rotates every daemon key whose file exceeds the
\* threshold: after the tick the file's content stands in a new archive, the
\* key's active file is fresh and empty, and a new writer is installed for
\* the key in the cache.
C15_TickRotates ==
    [][ (~ticked /\ ticked')
        => \A k \in Keys :
             Exceeds(k)
             => /\ \E p \in ArchivePaths(k) :
                     /\ p \notin DOMAIN files /\ p \in DOMAIN files'
                     /\ files'[p] = Contents(k)
                /\ files'[get_log_file_path(k)] = <<>>
                /\ file_writers'[CacheKey(k)] # file_writers[CacheKey(k)] ]_vars

\* The files that hold records of daemon k: its active file and its archives
FilesOf(k) == ({get_log_file_path(k)} \cap DOMAIN files) \cup Archives(k)

\* How often the record i of connection c stands in the files of daemon k
RECURSIVE OccurrencesIn(_, _)
OccurrencesIn(P, chunk) ==
    IF P = {} THEN 0
    ELSE LET p == CHOOSE q \in P : TRUE
         IN Occurrences(files[p], chunk) + OccurrencesIn(P \ {p}, chunk)

RecordsIn(f) == Cardinality({j \in 1..Len(f) : f[j][1] = "body"})

RECURSIVE TotalRecords(_)
TotalRecords(P) ==
    IF P = {} THEN 0
    ELSE LET p == CHOOSE q \in P : TRUE
         IN RecordsIn(files[p]) + TotalRecords(P \ {p})

RECURSIVE SentFor(_, _)
SentFor(c, k) == IF c = 0 THEN 0 ELSE Cardinality(RecordsOf(c, k)) + SentFor(c - 1, k)

AllStored == \A c \in Conns : Len(res[c]) = Len(sent[c]) /\ \A i \in 1..Len(res[c]) : res[c][i] = "ok"

\* C16: with the file backend enabled, once every record sent has been
\* stored, the active file and the
\* archived files of every daemon key hold together as many records as
\* were sent for the key, each of them once, whether or not the rotation
\* task has scanned in the meantime.
C16_NoRecordLost ==
    (fileEnabled /\ AllStored)
    => \A k \in Keys :
         /\ TotalRecords(FilesOf(k)) = SentFor(MaxConns, k)
         /\ \A c \in Conns : \A i \in RecordsOf(c, k) :
              OccurrencesIn(FilesOf(k), Body(c, i)) = 1

C16_Witness ==
    /\ AllStored /\ ticked /\ rotator = "select"
    /\ \E c, d \in Conns :
         /\ c # d /\ sent[c] # <<>> /\ sent[d] # <<>>
         /\ TotalRecords(FilesOf("A")) = 2

C18_ArchivesBounded ==
    /\ \A k \in Keys : Cardinality(Archives(k)) <= keep_files
    /\ \A p \in DOMAIN files :
         \E c \in Conns : \E i \in 1..Len(sent[c]) :
            Parses(sent[c][i]) /\ p = get_log_file_path(sent[c][i].daemon)

C18_Witness ==
    /\ rotation_enabled /\ rotator = "select" /\ ticked
    /\ AllStored /\ Exceeds("A")
    /\ Len(Contents("A")) = 4
    /\ Archives("A") = {}

\* f is the beginning of g
Prefix(f, g) == Len(f) <= Len(g) /\ SubSeq(g, 1, Len(f)) = f

\* C19: a scan that leaves a key unrotated does no harm.  The tick step
\* leaves every file, writer and cache entry, every connection, every task
\* and every result of a store call as it was, and leaves the rotation task
\* in its loop, where the next tick is due again; the task leaves the loop
\* only on the shutdown signal; and no step of anyone removes a file or
\* takes away what it holds.
C19_Inv == rotator = "select" => ENABLED RotationTick

C19_Step ==
    /\ (~ticked /\ ticked')
         => /\ UNCHANGED <<net, store, listener, shutdown>>
            /\ rotator = "select" /\ rotator' = "select"
    /\ (rotator = "select" /\ rotator' # "select")
         => shutdown /\ rotator' = "returned" /\ UNCHANGED <<net, store>>
    /\ \A p \in DOMAIN files :
         p \in DOMAIN files' /\ Prefix(files[p], files'[p])

C20_DormantUntilShutdown ==
    ~rotation_enabled
    => /\ ~ticked
       /\ rotator = "returned" => shutdown

\* C20, amended: with rotation disabled the task makes no scan and touches
\* no file, and it does not wait for the shutdown signal: its first step
\* returns, whether or not a signal was sent, and that step changes nothing
\* else; it never enters the loop.
C20_Inv ==
    ~rotation_enabled
    => /\ ~ticked
       /\ rotator \in {"none", "start", "returned"}
       /\ rotator = "start" => ENABLED RotationStart
       /\ ~ENABLED RotationTick /\ ~ENABLED RotationShutdown

C20_Step ==
    (~rotation_enabled /\ rotator = "start" /\ rotator' # rotator)
    => rotator' = "returned" /\ UNCHANGED <<net, store, listener, shutdown>>

C20_DisabledReturnsAtOnce == [](C20_Inv) /\ [][C20_Step]_vars

C20_Witness ==
    /\ ~rotation_enabled /\ rotator = "returned" /\ ~shutdown
    /\ listener = "accepting"
    /\ Contents("A") # <<>>

\* C21: with rotation enabled the rotation task leaves its loop only by
\* taking a shutdown signal, and stays in it, ticks being handled, as long
\* as none is in the channel; once a signal is in the channel the task
\* eventually returns, whether it has handled a tick or not and whether it
\* had entered the loop or not.
C21_Inv ==
    (rotation_enabled /\ rotator = "select" /\ ~shutdown)
    => ENABLED RotationTick /\ ~ENABLED RotationShutdown

C21_Step ==
    (rotation_enabled /\ rotator = "select" /\ rotator' # "select")
    => shutdown /\ rotator' = "returned"

C21_RotationExitsOnShutdown ==
    /\ [](C21_Inv)
    /\ [][C21_Step]_vars
    /\ \A t \in BOOLEAN :
         (rotation_enabled /\ shutdown /\ ticked = t /\ rotator \in {"start", "select"})
           ~> (rotator = "returned")

C21_Witness ==
    /\ rotation_enabled /\ rotator = "returned"
    /\ ticked /\ shutdown
    /\ listener = "accepting"

\* C23: for every pair of levels a and b, a < b exactly when
\* rank(a) < rank(b) with Emergency=0, Alert=1, Critical=2, Error=3,
\* Warning=4, Notice=5, Info=6, Debug=7, and a = b exactly when the ranks
\* are equal.
C23_rank ==
    [l \in Levels |->
       CASE l = "Emergency" -> 0 [] l = "Alert"   -> 1
         [] l = "Critical"  -> 2 [] l = "Error"   -> 3
         [] l = "Warning"   -> 4 [] l = "Notice"  -> 5
         [] l = "Info"      -> 6 [] l = "Debug"   -> 7]

C23_OrderIsRankOrder ==
    ent.cmp # <<>> =>
        /\ ent.cmp[1] <=> (C23_rank[ent.a] < C23_rank[ent.b])
        /\ ent.cmp[2] <=> (C23_rank[ent.a] = C23_rank[ent.b])

C23_Witness ==
    /\ ent.cmp = <<TRUE, FALSE>>
    /\ ent.a = "Warning" /\ ent.b = "Notice"

\* C22: for every entry e (any level, any daemon and message text, quotes,
\* backslashes, line feeds and tabs included, any fields map, pid and
\* hostname present or absent), reading the JSON rendering of e gives an
\* entry equal to e in all eight fields.
C22_RoundTrip ==
    ent.parsed # None =>
        /\ ent.parsed[1].ok
        /\ \A i \in 1..Len(FieldNames) :
             ent.parsed[1].e[FieldNames[i]] = ent.e[FieldNames[i]]

C22_Witness ==
    /\ ent.parsed # None /\ ent.parsed[1].ok
    /\ ent.e.message = <<"bslash", "n">>
    /\ ent.e.daemon = <<"quote">>
    /\ DOMAIN ent.e.fields = {Key1, Key2}
    /\ ent.e.pid = None /\ ent.e.hostname # None
    /\ ent.parsed[1].e.message = ent.e.message

\* C25: in the JSON and in the human-readable format every successful store
\* appends exactly one line to the daemon's file, whatever the entry holds
\* (line feeds and other control characters in the message or the daemon
\* name included): a file has as many lines as records were stored in it.
C25_OneLinePerStore == LineCount(ent.file) = ent.stored

\* C24: reading a line is total and strict: a JSON object with members the
\* struct does not have reads as the same entry as without them; an input
\* that lacks a required member, or that is not a JSON object, gives a
\* parse error, never a crash and never an entry filled in part.
C24_Dropped == Names \ DOMAIN ent.doc[1].members

C24_TotalAndStrict ==
    ent.parsed # None =>
        LET d == ent.doc[1]
            r == ent.parsed[1]
        IN  /\ r.ok \in BOOLEAN
            /\ (d.shape = "object" /\ C24_Dropped = {}) => (r.ok /\ r.e = ent.e)
            /\ (C24_Dropped \cap Required # {}) => ~r.ok
            /\ d.shape # "object" => ~r.ok
            /\ r.ok => DOMAIN r.e = Names

\* C30: in the per-connection loop only a fatal (disk-full class) storage
\* error ends the connection: after a store call that fails with another
\* error, here the daemon's file could not be opened, the loop goes on and
\* the later lines of the connection are still read and stored.
C30_Step ==
    \A c \in Conns :
        (Running(c) /\ pc[c] = "open" /\ Len(res'[c]) = Len(res[c]) + 1
           /\ res'[c][Len(res'[c])] = "err")
        => conn'[c] = "open"

C30_NonFatalContinues == [][C30_Step]_vars

\* The call this step makes on the client, if it makes one
LastCall(c) == c.calls[Len(c.calls)]
Calls(op) == Len(cli'.calls) = Len(cli.calls) + 1 /\ LastCall(cli')[1] = op

\* C26: after the client's connection to the collector is lost (the write
\* fails or the peer closed), the next send on the client opens a new
\* connection and delivers the record instead of returning an error: a
\* transient drop never leaves the client failing for good.
C26_Step ==
    (Calls("log") /\ cli.listening
       /\ cli.connection # None /\ cli.connection[1] \notin cli.alive)
    => /\ cli'.opened = cli.opened + 1
       /\ LastCall(cli') = <<"log", "ok", cli'.opened>>

C26_ReconnectsAfterDrop == [][C26_Step]_vars

\* C27: after close() the client holds no connection, close() on a client
\* that is closed already succeeds, and the next log call after close()
\* opens a new connection and sends its record on it (a server listening;
\* with none the call returns the connection error and sends nothing).
C27_Inv ==
    (cli # <<>> /\ cli.calls # <<>> /\ LastCall(cli)[1] = "close")
    => cli.connection = None

C27_Step ==
    /\ (Calls("close") /\ cli.connection = None)
       => LastCall(cli') = <<"close", "ok", 0>> /\ cli'.connection = None
    /\ (Calls("log") /\ cli.calls # <<>> /\ LastCall(cli)[1] = "close")
       => IF cli.listening
          THEN /\ cli'.opened = cli.opened + 1
               /\ cli'.connection = Some(cli'.opened)
               /\ LastCall(cli') = <<"log", "ok", cli'.opened>>
          ELSE /\ cli'.opened = cli.opened
               /\ LastCall(cli') = <<"log", "connection_err", 0>>

C27_CloseThenLogReconnects == [](C27_Inv) /\ [][C27_Step]_vars

C27_Witness ==
    /\ cli # <<>>
    /\ cli.calls = << <<"close", "ok", 0>>, <<"close", "ok", 0>>, <<"log", "ok", 2>> >>
    /\ cli.connection = Some(2)

\* C28: creating a client with an empty socket path or an empty daemon
\* name returns a configuration error before any connection is attempted;
\* creating a client when no server listens returns a connection error and
\* no usable client.
C28_Empty == cli.socket_path = "" \/ cli.daemon_name = ""

C28_Inv ==
    cli # <<>> =>
        /\ cli.client = "config_err" => cli.attempts = 0
        /\ cli.client = "built" => ~C28_Empty /\ cli.opened >= 1

C28_Step ==
    (cli.client = "none" /\ cli'.client # "none")
    => /\ C28_Empty => cli'.client = "config_err" /\ cli'.attempts = 0
       /\ (~C28_Empty /\ ~cli.listening)
            => cli'.client = "connection_err" /\ cli'.connection = None

C28_CreateFailsEarly == [](C28_Inv) /\ [][C28_Step]_vars

C28_Witness ==
    /\ cli # <<>>
    /\ cli.client = "config_err"
    /\ cli.socket_path = "sock" /\ cli.daemon_name = ""
    /\ cli.listening

\* C29: before binding, the listener removes the file that exists at the
\* socket path, so that start binds when a stale artifact is there; if the
\* removal fails (a directory is there), start returns an error without
\* binding.
C29_Step ==
    (listener = "init" /\ listener' # "init" /\ at_path \in {"file", "dir"})
    => IF at_path = "file"
       THEN listener' = "accepting" /\ at_path' = "socket"
       ELSE listener' = "returned_err" /\ at_path' = at_path

C31_Inv ==
    \A c \in closed :
        (conn[c] = "open" /\ pc[c] = "read")
        => /\ ENABLED ReadEofClosed(c)
           /\ TotalSent < MaxSent => \A line \in TaskLines : ENABLED ReadLine(c, line)

C31_Step ==
    \A c \in Conns :
        /\ (conn[c] = "open" /\ pc[c] = "read" /\ conn'[c] # "open")
             => conn'[c] = "returned_ok" /\ res'[c] = res[c]
        /\ (conn[c] = "open" /\ conn'[c] = "returned_err")
             => pc[c] # "read" /\ res'[c] = Append(res[c], "err")

RECURSIVE C32_Select(_, _)
C32_Select(seq, S) ==
    IF seq = <<>> THEN <<>>
    ELSE (IF Head(seq) \in S THEN <<Head(seq)>> ELSE <<>>) \o C32_Select(Tail(seq), S)

C32_Bodies(f) ==
    LET b == SelectSeq(f, LAMBDA ch : ch[1] = "body")
    IN  [j \in 1..Len(b) |-> <<b[j][2], b[j][3]>>]

C32_FileOrderIsLockOrder ==
    \A path \in DOMAIN files :
        LET inFile == C32_Bodies(files[path])
            locked == IF path \in DOMAIN acquired THEN acquired[path] ELSE <<>>
        IN  C32_Select(locked, {inFile[j] : j \in 1..Len(inFile)}) = inFile

\* C33: the writer cache only grows: a key, once cached, is never removed;
\* and after any sequence of store calls that all succeeded the cache
\* holds one entry for each daemon name that was stored and none for any
\* other name.
C33_StoredNames ==
    {sent[c][i].daemon : <<c, i>> \in
        {r \in Conns \X (1..MaxSent) : r[2] <= Len(res[r[1]]) /\ res[r[1]][r[2]] = "ok"}}

C33_Inv ==
    (fileEnabled /\ ~StoreFailed /\ \A c \in Conns : ~InStore(c))
    => DOMAIN file_writers = C33_StoredNames

C33_Step == DOMAIN file_writers \subseteq DOMAIN file_writers'

C33_CacheOnlyGrows == [](C33_Inv) /\ [][C33_Step]_vars

C33_Witness ==
    /\ DOMAIN file_writers = {"A", "B"}
    /\ ~StoreFailed /\ \A c \in Conns : ~InStore(c)
    /\ \E c \in Conns : res[c] = <<"ok", "ok">>

\* C34: every file the storage engine creates or appends to is a file
\* named <daemon>.log that lies directly in the configured output
\* directory, for every daemon name a producer can send, names with path
\* separators or ".." included.
C34_FilesInOutputDirectory ==
    (ent.file # None) =>
        /\ ent.file[1].abs = ent.dir.abs
        /\ ent.file[1].dir = ent.dir.comps
        /\ ent.file[1].name = LogFileName(ent.daemon)

C36_Step ==
    \A c \in Conns :
        /\ (conn[c] = "open" /\ pc[c] = "open" /\ conn'[c] # "open")
              => /\ conn'[c] = "returned_err"
                 /\ res'[c] = Append(res[c], "err")
                 /\ file_writers' = file_writers
                 /\ files' = files
        /\ (conn[c] = "open" /\ pc[c] = "read" /\ pc'[c] # "read"
               /\ sent'[c][Len(sent'[c])].daemon \notin DOMAIN file_writers)
              => pc'[c] = "open"

C36_Inv ==
    \A c \in Conns :
        (conn[c] = "open" /\ pc[c] = "open") => ENABLED StoreOpen(c)

C36_FailedCreateLeavesCache == [](C36_Inv) /\ [][C36_Step]_vars

C36_Witness ==
    \E c \in Conns : \E d \in Conns \ {c} :
        /\ conn[c] = "returned_err"
        /\ res[c] = <<"err">>
        /\ sent[c][1].daemon \notin DOMAIN file_writers
        /\ conn[d] = "open"
        /\ pc[d] = "open"
        /\ sent[d] = sent[c]

\* C37: when a store call has returned an error because its append or its
\* flush failed, no later store call for the key writes bytes of that
\* record: what a store call adds to a file is of its own record only,
\* that is chunks of the record it was called with and, after them, at most
\* the one newline that ends it.
C37_Added(p) ==
    SubSeq(files'[p], (IF p \in DOMAIN files THEN Len(files[p]) ELSE 0) + 1,
           Len(files'[p]))

C37_Step ==
    \A c \in Conns : \A p \in DOMAIN files' :
        (conn[c] = "open" /\ pc[c] \in {"write", "flush"} /\ pc'[c] # pc[c])
          => LET added == C37_Added(p)
             IN  \A j \in 1..Len(added) :
                    IF added[j][1] \in {"body", "frag"}
                    THEN added[j][2] = c /\ added[j][3] = Len(sent[c])
                    ELSE j = Len(added)

C37_FailedRecordNeverWritten == [][C37_Step]_vars

\* C38: every log call that returns Ok has written its whole record and
\* the newline to a connection, also when close() runs on a clone of the
\* client between the connection check of the call and its write.
C38_OkMeansWritten ==
    \A i \in 1..Len(cli.calls) :
        (cli.calls[i][1] = "log" /\ cli.calls[i][2] = "ok")
            => cli.calls[i][3] # 0

\* C39: the listener and the rotation task terminate as well when every
\* shutdown sender is dropped without a signal having been sent, and when
\* more signals were sent than the channel holds: any outcome of waiting
\* on the shutdown channel ends their loops.
C39_Inv ==
    /\ (listener = "accepting" /\ channel \in {"closed", "lagged"})
          => ENABLED ListenerShutdown
    /\ (rotator = "select" /\ channel \in {"closed", "lagged"})
          => ENABLED RotationShutdown

C39_AnyRecvOutcomeEndsLoops ==
    /\ [](C39_Inv)
    /\ (listener = "accepting" /\ channel \in {"closed", "lagged"})
          ~> (listener = "returned_ok")
    /\ (rotator = "select" /\ channel \in {"closed", "lagged"})
          ~> (rotator = "returned")

C39_Witness ==
    /\ listener = "returned_ok"
    /\ rotator = "returned"
    /\ ticked
    /\ ~shutdown
    /\ channel = "closed"

\* C40: provided each file operation completes, every store call
\* eventually returns: under any interleaving of store calls for the same
\* and for different keys, racing first stores for a new key included,
\* there is no deadlock (while a call is in store, some call in store can
\* take a step, and a held lock is held by a call inside its write
\* section) and no call waits for a lock forever.
C40_Inv ==
    /\ (\E c \in Conns : conn[c] = "open" /\ pc[c] # "read")
          => \E c \in Conns : ENABLED (FileStep(c) \/ StoreLock(c))
    /\ \A w \in DOMAIN writers :
          writers[w].holder # NoHolder
            => /\ conn[writers[w].holder] = "open"
               /\ pc[writers[w].holder] \in {"write", "flush"}
               /\ cur[writers[w].holder] = w

C40_EveryStoreReturns ==
    /\ [](C40_Inv)
    /\ \A c \in Conns :
          (conn[c] = "open" /\ pc[c] # "read") ~> (pc[c] = "read")

C40_Witness ==
    \E c \in Conns : \E d \in Conns \ {c} :
        /\ res[c] = <<"ok">> /\ res[d] = <<"ok">>
        /\ sent[c] = sent[d]
        /\ Cardinality({w \in DOMAIN writers : writers[w].path = get_log_file_path(sent[c][1].daemon)}) = 2
====
